---- MODULE Spec2Model ----
(***************************************************************************)
(* Model of collector/rpc_metrics.go: the NodeRpcMetrics collector, its    *)
(* Collect method and the helpers GetStakeFromString and HashString.       *)
(*                                                                         *)
(* Strings whose content the code inspects (stake amounts, the build       *)
(* string) are sequences: a stake string is a sequence of one-character    *)
(* strings, a build string a sequence of byte values.  A float64 stake is  *)
(* represented exactly by its numerator over StakeDivisor, so that the     *)
(* value 30.0 is the integer 30 * StakeDivisor.  The value of a metric is  *)
(* written in base 2^16, most significant digit first, which holds a stake *)
(* as well as a 32-bit hash.                                               *)
(***************************************************************************)
EXTENDS Integers, Sequences, FiniteSets, TLC

VARIABLES accountId, pc, ch, calls, r, s, stake

vars == <<accountId, pc, ch, calls, r, s, stake>>

(***************************************************************************)
(* Bounds of the model.                                                    *)
(***************************************************************************)
MaxCurrent == 2
MaxOther == 1
MaxDelegators == 1
MaxPrefix == 2

(***************************************************************************)
(* Program constants.                                                      *)
(***************************************************************************)
StakeCutoff == 19
StakeDivisor == 100000
FnvPrime32 == 16777619
FnvOffset32 == <<33052, 40389>>
Limb == 2^16

(***************************************************************************)
(* Metric identities (NewNodeRpcMetrics).                                  *)
(***************************************************************************)
epochBlockProducedDesc == "near_account_epoch_block_produced_number"
epochBlockExpectedDesc == "near_account_epoch_block_expected_number"
epochChunksProducedDesc == "near_account_epoch_chunks_produced_number"
epochChunksExpectedDesc == "near_account_epoch_chunks_expected_number"
delegatorStakeDesc == "near_account_delegator_stake"
currentValidatorStakeDesc == "near_account_current_validator_stake"
nextValidatorStakeDesc == "near_account_next_validator_stake"
currentProposalsDesc == "near_account_current_proposals_stake"
prevEpochKickoutDesc == "near_account_prev_epoch_kickout"
epochStartHeightDesc == "near_epoch_start_height"
blockNumberDesc == "near_block_number"
syncingDesc == "near_sync_state"
versionBuildDesc == "near_version_build"
seatPriceDesc == "near_seat_price"

\* Describe: the identities in the order they are sent.
Describe ==
  << epochBlockProducedDesc, epochBlockExpectedDesc, epochChunksProducedDesc,
     epochChunksExpectedDesc, seatPriceDesc, delegatorStakeDesc,
     epochStartHeightDesc, blockNumberDesc, syncingDesc, versionBuildDesc,
     currentValidatorStakeDesc, nextValidatorStakeDesc, currentProposalsDesc,
     prevEpochKickoutDesc >>

\* The identities declared with label names.
LabelledDescs == {delegatorStakeDesc, prevEpochKickoutDesc, versionBuildDesc}

Range(q) == {q[i] : i \in 1..Len(q)}

(***************************************************************************)
(* Emissions on the channel.                                               *)
(***************************************************************************)
\* float64(n) of a non-negative integer, as the value of a metric.
RECURSIVE Float64(_)
Float64(n) ==
  IF n < Limb THEN <<n>> ELSE Float64(n \div Limb) \o <<n % Limb>>

\* float64(h) of a uint32 held as <<hi, lo>>.
Float64OfUint32(h) == IF h[1] = 0 THEN <<h[2]>> ELSE h

MustNewConstMetric(desc, value, labels) ==
  [desc |-> desc, valid |-> TRUE, value |-> value, labels |-> labels]

NewInvalidMetric(desc) ==
  [desc |-> desc, valid |-> FALSE, value |-> <<>>, labels |-> <<>>]

(***************************************************************************)
(* GetStakeFromString.                                                     *)
(***************************************************************************)
Digits == {"0", "1", "2", "3", "4", "5", "6", "7", "8", "9"}

DigitVal ==
  ("0" :> 0) @@ ("1" :> 1) @@ ("2" :> 2) @@ ("3" :> 3) @@ ("4" :> 4) @@
  ("5" :> 5) @@ ("6" :> 6) @@ ("7" :> 7) @@ ("8" :> 8) @@ ("9" :> 9)

RECURSIVE DecimalValue(_)
DecimalValue(str) ==
  IF str = <<>> THEN 0
  ELSE 10 * DecimalValue(SubSeq(str, 1, Len(str) - 1)) + DigitVal[str[Len(str)]]

\* strconv.ParseFloat on a string over the digits and the letter x: the empty
\* string and any string holding an x are syntax errors, a digit string is its
\* decimal value.
ParseFloat(str) ==
  IF str # <<>> /\ \A i \in 1..Len(str) : str[i] \in Digits
  THEN [v |-> DecimalValue(str), err |-> FALSE]
  ELSE [v |-> 0, err |-> TRUE]

\* GetStakeFromString with the length test off by one.
GetStakeFromString_Cutoff20(str) ==
  IF Len(str) <= StakeCutoff + 1 THEN 0
  ELSE LET l == Len(str) - StakeCutoff
           p == ParseFloat(SubSeq(str, 1, l))
       IN IF p.err THEN 0 ELSE p.v

\* Lines 255-266.  The result is the numerator of v / 10^5 over StakeDivisor.
GetStakeFromString(str) ==
  IF Len(str) <= StakeCutoff THEN 0
  ELSE LET l == Len(str) - StakeCutoff
           p == ParseFloat(SubSeq(str, 1, l))
       IN IF p.err THEN 0 ELSE p.v

(***************************************************************************)
(* HashString: 32-bit FNV-1a, kept as two 16-bit limbs <<hi, lo>>.         *)
(***************************************************************************)
RECURSIVE Xor(_, _, _)
Xor(a, b, bits) ==
  IF bits = 0 THEN 0
  ELSE ((a + b) % 2) + 2 * Xor(a \div 2, b \div 2, bits - 1)

FnvStep(h, byte) ==
  LET lo == (h[2] \div 256) * 256 + Xor(h[2] % 256, byte, 8)
      hi == h[1]
      primeLo == FnvPrime32 % (2^24)
      lop == lo * primeLo
  IN << (hi * primeLo + (lop \div Limb) + (lo % 256) * 256) % Limb,
        lop % Limb >>

RECURSIVE Fnv32a(_, _)
Fnv32a(h, bytes) ==
  IF bytes = <<>> THEN h ELSE Fnv32a(FnvStep(h, Head(bytes)), Tail(bytes))

HashString(bytes) == Fnv32a(FnvOffset32, bytes)

(***************************************************************************)
(* Inputs: the responses of the three RPC calls.                           *)
(***************************************************************************)
Zeros(n) == [i \in 1..n |-> "0"]

\* 19 digits: too short to carry a stake.
StakeShort == Zeros(19)
\* "30000000000000000000000000" and "20000000000000000000000000".
Stake3e25 == <<"3">> \o Zeros(25)
Stake2e25 == <<"2">> \o Zeros(25)

Accounts == {"a.near", "b.near"}

SeqsUpTo(S, n) == UNION {[1..k -> S] : k \in 0..n}

StatusResponses ==
  { [Syncing |-> TRUE, LatestBlockHeight |-> 7, Version |-> "1.0.0", Build |-> <<97>>],
    [Syncing |-> FALSE, LatestBlockHeight |-> 8, Version |-> "1.0.1", Build |-> <<97, 98>>] }

ValidatorRecord(a, st) ==
  [AccountId |-> a, Stake |-> st, NumProducedBlocks |-> 1, NumExpectedBlocks |-> 2,
   NumProducedChunks |-> 3, NumExpectedChunks |-> 4]

CurrentValidatorRecords ==
  { ValidatorRecord("a.near", Stake3e25), ValidatorRecord("b.near", Stake2e25),
    ValidatorRecord("b.near", StakeShort) }

StakeRecords == { [AccountId |-> a, Stake |-> Stake3e25] : a \in Accounts }

\* A kickout reason is a JSON string or a JSON object with one key.
KickoutRecords ==
  { [AccountId |-> "a.near", Reason |-> [kind |-> "string", name |-> "Unstaked"]],
    [AccountId |-> "b.near", Reason |-> [kind |-> "map", name |-> "NotEnoughBlocks"]] }

ValidatorsResponses ==
  { [EpochStartHeight |-> 5, CurrentValidators |-> cv, NextValidators |-> nv,
     CurrentProposals |-> cp, PrevEpochKickOut |-> ko] :
    cv \in SeqsUpTo(CurrentValidatorRecords, MaxCurrent),
    nv \in SeqsUpTo(StakeRecords, MaxOther),
    cp \in SeqsUpTo(StakeRecords, MaxOther),
    ko \in SeqsUpTo(KickoutRecords, MaxOther) }

DelegatorAccounts ==
  { [AccountId |-> a, UnstakedBalance |-> StakeShort, StakedBalance |-> Stake2e25,
     CanWithdraw |-> FALSE] : a \in {"d1.near"} }

\* The bytes of result.result, by what json.Unmarshal makes of them: a JSON
\* array of delegator accounts, or text that is not valid JSON.
QueryResponses ==
  { [json |-> "array", accounts |-> ds] : ds \in SeqsUpTo(DelegatorAccounts, MaxDelegators) }
  \cup { [json |-> "malformed", accounts |-> <<>>] }

\* json.Unmarshal into res, the error dropped: invalid JSON leaves res empty.
Unmarshal(d) == IF d.json = "array" THEN d.accounts ELSE <<>>

\* fmt.Sprintf("%v", v.Reason)
SprintfV(reason) ==
  IF reason.kind = "string" THEN reason.name ELSE "map[" \o reason.name \o ":map[]]"

NoResponse == <<>>

(***************************************************************************)
(* Collect.  The method runs from one client.Get call to the next; pc is   *)
(* the call it is about to make, ch the metrics sent so far, calls the     *)
(* client.Get calls made so far with their outcome.                        *)
(***************************************************************************)
Call(method, ok) == [method |-> method, ok |-> ok]

\* Lines 150-163: the three metrics of a status response.
StatusMetrics(sr) ==
  << MustNewConstMetric(syncingDesc, Float64(IF sr.Syncing THEN 1 ELSE 0), <<>>),
     MustNewConstMetric(blockNumberDesc, Float64(sr.LatestBlockHeight), <<>>),
     MustNewConstMetric(versionBuildDesc, Float64OfUint32(HashString(sr.Build)),
                        <<sr.Version, sr.Build>>) >>

\* StatusErrMetrics marking the sync state invalid as well.
StatusErrMetrics_Two ==
  << NewInvalidMetric(versionBuildDesc), NewInvalidMetric(syncingDesc) >>

\* Lines 146-149.
StatusErrMetrics == << NewInvalidMetric(versionBuildDesc) >>

\* ValidatorsErrMetrics without the kickout identity.
ValidatorsErrMetrics_NoKickout ==
  << NewInvalidMetric(epochBlockProducedDesc),
     NewInvalidMetric(epochBlockExpectedDesc),
     NewInvalidMetric(epochChunksProducedDesc),
     NewInvalidMetric(epochChunksExpectedDesc),
     NewInvalidMetric(seatPriceDesc),
     NewInvalidMetric(epochStartHeightDesc),
     NewInvalidMetric(blockNumberDesc),
     NewInvalidMetric(syncingDesc),
     NewInvalidMetric(versionBuildDesc),
     NewInvalidMetric(currentValidatorStakeDesc),
     NewInvalidMetric(nextValidatorStakeDesc),
     NewInvalidMetric(currentProposalsDesc) >>

\* Lines 166-181.
ValidatorsErrMetrics ==
  << NewInvalidMetric(epochBlockProducedDesc),
     NewInvalidMetric(epochBlockExpectedDesc),
     NewInvalidMetric(epochChunksProducedDesc),
     NewInvalidMetric(epochChunksExpectedDesc),
     NewInvalidMetric(seatPriceDesc),
     NewInvalidMetric(epochStartHeightDesc),
     NewInvalidMetric(blockNumberDesc),
     NewInvalidMetric(syncingDesc),
     NewInvalidMetric(versionBuildDesc),
     NewInvalidMetric(currentValidatorStakeDesc),
     NewInvalidMetric(nextValidatorStakeDesc),
     NewInvalidMetric(currentProposalsDesc),
     NewInvalidMetric(prevEpochKickoutDesc) >>

\* Lines 227-230.
QueryErrMetrics == << NewInvalidMetric(delegatorStakeDesc) >>

\* IsAccount without the comparison.
IsAccount_Any(v, id) == TRUE

\* Lines 194, 204, 210, 216: the entry is the configured account's.
IsAccount(v, id) == v.AccountId = id

\* SeatPriceStep with the comparison reversed.
SeatPriceStep_Max(seatPrice, stk) ==
  LET seeded == IF seatPrice = 0 THEN stk ELSE seatPrice
  IN IF seeded < stk THEN stk ELSE seeded

\* Lines 188-193: one round of the seat price computation.
SeatPriceStep(seatPrice, stk) ==
  LET seeded == IF seatPrice = 0 THEN stk ELSE seatPrice
  IN IF seeded > stk THEN stk ELSE seeded

\* Lines 195-199.
CurrentValidatorMetrics(v, stk) ==
  << MustNewConstMetric(currentValidatorStakeDesc, Float64(stk), <<>>),
     MustNewConstMetric(epochBlockProducedDesc, Float64(v.NumProducedBlocks), <<>>),
     MustNewConstMetric(epochBlockExpectedDesc, Float64(v.NumExpectedBlocks), <<>>),
     MustNewConstMetric(epochChunksProducedDesc, Float64(v.NumProducedChunks), <<>>),
     MustNewConstMetric(epochChunksExpectedDesc, Float64(v.NumExpectedChunks), <<>>) >>

\* Lines 185-201: the loop over the current validators, from the state
\* [seatPrice, out] it has reached.
RECURSIVE CurrentValidatorsLoop(_, _, _)
CurrentValidatorsLoop(vs, id, acc) ==
  IF vs = <<>> THEN acc
  ELSE LET v == Head(vs)
           stk == GetStakeFromString(v.Stake)
       IN CurrentValidatorsLoop(Tail(vs), id,
            [seatPrice |-> SeatPriceStep(acc.seatPrice, stk),
             out |-> IF IsAccount(v, id)
                     THEN acc.out \o CurrentValidatorMetrics(v, stk)
                     ELSE acc.out])

\* SeatPriceMetrics sending nothing for an empty list.
SeatPriceMetrics_SkipEmpty(vs, seatPrice) ==
  IF vs = <<>> THEN <<>>
  ELSE << MustNewConstMetric(seatPriceDesc, Float64(seatPrice), <<>>) >>

\* Line 202.
SeatPriceMetrics(vs, seatPrice) ==
  << MustNewConstMetric(seatPriceDesc, Float64(seatPrice), <<>>) >>

\* Lines 203-213: the loops over the next validators and the proposals.
RECURSIVE StakeLoop(_, _, _)
StakeLoop(vs, id, desc) ==
  IF vs = <<>> THEN <<>>
  ELSE (IF IsAccount(Head(vs), id)
        THEN << MustNewConstMetric(desc, Float64(GetStakeFromString(Head(vs).Stake)), <<>>) >>
        ELSE <<>>) \o StakeLoop(Tail(vs), id, desc)

\* Lines 215-219.
RECURSIVE KickoutLoop(_, _)
KickoutLoop(vs, id) ==
  IF vs = <<>> THEN <<>>
  ELSE (IF IsAccount(Head(vs), id)
        THEN << MustNewConstMetric(prevEpochKickoutDesc, Float64(0), <<SprintfV(Head(vs).Reason)>>) >>
        ELSE <<>>) \o KickoutLoop(Tail(vs), id)

\* Lines 183-219: everything sent for a validators response.
ValidatorsMetrics(resp, id) ==
  LET cur == CurrentValidatorsLoop(resp.CurrentValidators, id,
                                   [seatPrice |-> 0, out |-> <<>>])
  IN << MustNewConstMetric(epochStartHeightDesc, Float64(resp.EpochStartHeight), <<>>) >>
     \o cur.out
     \o SeatPriceMetrics(resp.CurrentValidators, cur.seatPrice)
     \o StakeLoop(resp.NextValidators, id, nextValidatorStakeDesc)
     \o StakeLoop(resp.CurrentProposals, id, currentProposalsDesc)
     \o KickoutLoop(resp.PrevEpochKickOut, id)

\* Lines 232-242.
RECURSIVE DelegatorMetrics(_)
DelegatorMetrics(res) ==
  IF res = <<>> THEN <<>>
  ELSE << MustNewConstMetric(delegatorStakeDesc,
                             Float64(GetStakeFromString(Head(res).StakedBalance)),
                             <<Head(res).AccountId>>) >>
       \o DelegatorMetrics(Tail(res))

Init ==
  /\ accountId = "a.near"
  /\ pc = "idle"
  /\ ch = <<>>
  /\ calls = <<>>
  /\ r = NoResponse
  /\ s = <<>>
  /\ stake = 0

\* Line 144: the registry calls Collect with a fresh channel.
Scrape ==
  /\ pc \in {"idle", "done"}
  /\ pc' = "status"
  /\ ch' = <<>>
  /\ calls' = <<>>
  /\ r' = NoResponse
  /\ UNCHANGED <<accountId, s, stake>>

\* StatusErr trying the call again instead of returning.
StatusErr_Retry ==
  /\ pc = "status"
  /\ Len(calls) < 4
  /\ calls' = Append(calls, Call("status", FALSE))
  /\ ch' = ch \o StatusErrMetrics
  /\ pc' = "status"
  /\ UNCHANGED <<accountId, r, s, stake>>

\* Lines 145-149.
StatusErr ==
  /\ pc = "status"
  /\ calls' = Append(calls, Call("status", FALSE))
  /\ ch' = ch \o StatusErrMetrics
  /\ pc' = "done"
  /\ UNCHANGED <<accountId, r, s, stake>>

\* Lines 145, 150-163.
StatusOk ==
  /\ pc = "status"
  /\ \E sr \in StatusResponses :
       ch' = ch \o StatusMetrics(sr)
  /\ calls' = Append(calls, Call("status", TRUE))
  /\ pc' = "validators"
  /\ UNCHANGED <<accountId, r, s, stake>>

\* Lines 165-181.
ValidatorsErr ==
  /\ pc = "validators"
  /\ calls' = Append(calls, Call("validators", FALSE))
  /\ ch' = ch \o ValidatorsErrMetrics
  /\ pc' = "done"
  /\ UNCHANGED <<accountId, r, s, stake>>

\* Lines 165, 183-219.
ValidatorsOk ==
  /\ pc = "validators"
  /\ \E resp \in ValidatorsResponses :
       /\ r' = << resp >>
       /\ ch' = ch \o ValidatorsMetrics(resp, accountId)
  /\ calls' = Append(calls, Call("validators", TRUE))
  /\ pc' = "query"
  /\ UNCHANGED <<accountId, s, stake>>

\* Lines 221-230.
QueryErr ==
  /\ pc = "query"
  /\ calls' = Append(calls, Call("query", FALSE))
  /\ ch' = ch \o QueryErrMetrics
  /\ pc' = "done"
  /\ UNCHANGED <<accountId, r, s, stake>>

\* Lines 221-244.
QueryOk ==
  /\ pc = "query"
  /\ \E d \in QueryResponses :
       ch' = ch \o DelegatorMetrics(Unmarshal(d))
  /\ calls' = Append(calls, Call("query", TRUE))
  /\ pc' = "done"
  /\ UNCHANGED <<accountId, r, s, stake>>

CollectStep ==
  \/ StatusErr
  \/ StatusOk
  \/ ValidatorsErr
  \/ ValidatorsOk
  \/ QueryErr
  \/ QueryOk

Next ==
  \/ Scrape
  \/ CollectStep

Spec == Init /\ [][Next]_vars

\* Every client.Get call returns, with a response or with an error.
LiveSpec == Spec /\ WF_vars(CollectStep)

(***************************************************************************)
(* GetStakeFromString on its own: s is the argument, stake the result.     *)
(***************************************************************************)
Alphabet == {"0", "1", "2", "x"}

\* "3456789012345678901"
Tail19 == <<"3", "4", "5", "6", "7", "8", "9", "0", "1", "2",
            "3", "4", "5", "6", "7", "8", "9", "0", "1">>

Tails == {<<>>, Zeros(18), Zeros(19), Tail19, <<"x">> \o Zeros(18)}

StakeInputs == {h \o t : h \in SeqsUpTo(Alphabet, MaxPrefix), t \in Tails}

InitNorm ==
  /\ accountId = "a.near"
  /\ pc = "call"
  /\ ch = <<>>
  /\ calls = <<>>
  /\ r = NoResponse
  /\ s \in StakeInputs
  /\ stake = 0

\* Lines 255-266.
Normalize ==
  /\ pc = "call"
  /\ stake' = GetStakeFromString(s)
  /\ pc' = "return"
  /\ UNCHANGED <<accountId, ch, calls, r, s>>

NextNorm == Normalize

SpecNorm == InitNorm /\ [][NextNorm]_vars

(***************************************************************************)
(* Properties.                                                             *)
(***************************************************************************)
Emitted(desc) == {i \in 1..Len(ch) : ch[i].desc = desc}
ValidOf(desc) == {i \in Emitted(desc) : ch[i].valid}
InvalidOf(desc) == {i \in Emitted(desc) : ~ch[i].valid}
InvalidDescs == {ch[i].desc : i \in {j \in 1..Len(ch) : ~ch[j].valid}}
ValidDescs == {ch[i].desc : i \in {j \in 1..Len(ch) : ch[j].valid}}

Attempted(method) == \E i \in 1..Len(calls) : calls[i].method = method
CallOk(method) == \E i \in 1..Len(calls) : calls[i] = Call(method, TRUE)
CallFailed(method) == \E i \in 1..Len(calls) : calls[i] = Call(method, FALSE)

\* C1: when the status call fails, the channel holds exactly one emission, the
\* invalid marker of near_version_build, and neither the validators call nor
\* the query was attempted.
C1_StatusFailure ==
  CallFailed("status") =>
    /\ Len(ch) = 1
    /\ ch[1].desc = versionBuildDesc
    /\ ~ch[1].valid
    /\ ~Attempted("validators")
    /\ ~Attempted("query")

C1_Witness == pc = "done" /\ CallFailed("status") /\ Len(ch) = 1

\* C2: when the status call succeeds and the validators call fails, sync state,
\* block number and version build are each sent once as valid observations,
\* the invalid markers are 13, one for each identity other than the delegator
\* stake, and the query is not attempted.
C2_ValidatorsFailure ==
  (CallOk("status") /\ CallFailed("validators")) =>
    /\ \A d \in {syncingDesc, blockNumberDesc, versionBuildDesc} :
         Cardinality(ValidOf(d)) = 1
    /\ ValidDescs = {syncingDesc, blockNumberDesc, versionBuildDesc}
    /\ InvalidDescs = Range(Describe) \ {delegatorStakeDesc}
    /\ Cardinality({i \in 1..Len(ch) : ~ch[i].valid}) = 13
    /\ \A d \in InvalidDescs : Cardinality(InvalidOf(d)) = 1
    /\ ~Attempted("query")

C2_Witness ==
  pc = "done" /\ CallOk("status") /\ CallFailed("validators") /\ Len(ch) = 16

\* The identities whose value comes from the response of a call.
DependsOn(method) ==
  CASE method = "status" -> {syncingDesc, blockNumberDesc, versionBuildDesc}
    [] method = "validators" ->
         {epochBlockProducedDesc, epochBlockExpectedDesc, epochChunksProducedDesc,
          epochChunksExpectedDesc, seatPriceDesc, epochStartHeightDesc,
          currentValidatorStakeDesc, nextValidatorStakeDesc, currentProposalsDesc,
          prevEpochKickoutDesc}
    [] method = "query" -> {delegatorStakeDesc}

\* C3: the invalid markers of a scrape are only for identities that depend on
\* the call that failed, and no identity sent as a valid observation is marked
\* invalid in the same scrape.
C3_OnlyDependentInvalid ==
  /\ \A m \in {"status", "validators", "query"} :
       CallFailed(m) => InvalidDescs \subseteq DependsOn(m)
  /\ ValidDescs \cap InvalidDescs = {}

CurrentStakes ==
  IF r = NoResponse THEN <<>>
  ELSE [i \in 1..Len(r[1].CurrentValidators) |->
          GetStakeFromString(r[1].CurrentValidators[i].Stake)]

MinOf(S) == CHOOSE x \in S : \A y \in S : x <= y

SeatPriceValues == {ch[i].value : i \in ValidOf(seatPriceDesc)}

\* C4: after a validators response with a non-empty current-validator list,
\* the seat price sent is the minimum of the normalized stakes of the list.
C4_SeatPriceIsMinimum ==
  (CallOk("validators") /\ CurrentStakes # <<>>) =>
    /\ Cardinality(ValidOf(seatPriceDesc)) = 1
    /\ SeatPriceValues = {Float64(MinOf(Range(CurrentStakes)))}

RawStakes ==
  IF r = NoResponse THEN <<>>
  ELSE [i \in 1..Len(r[1].CurrentValidators) |-> r[1].CurrentValidators[i].Stake]

C5_Case ==
  /\ CallOk("validators")
  /\ RawStakes \in {<<Stake3e25, Stake2e25>>, <<Stake2e25, Stake3e25>>}

\* C5 as stated: with the raw stakes "30000000000000000000000000" and
\* "20000000000000000000000000" the normalized stakes are 300 and 200 and the
\* seat price sent is 200.
C5_SeatPrice200 ==
  C5_Case =>
    /\ Range(CurrentStakes) = {300 * StakeDivisor, 200 * StakeDivisor}
    /\ SeatPriceValues = {Float64(200 * StakeDivisor)}

\* C5 amended: with the raw stakes "30000000000000000000000000" and
\* "20000000000000000000000000" the normalized stakes are 30 and 20 and the
\* seat price sent is 20.
C5_SeatPrice20 ==
  C5_Case =>
    /\ Range(CurrentStakes) = {30 * StakeDivisor, 20 * StakeDivisor}
    /\ Cardinality(ValidOf(seatPriceDesc)) = 1
    /\ SeatPriceValues = {Float64(20 * StakeDivisor)}

C5_Witness == C5_Case /\ pc = "done" /\ RawStakes[1] = Stake3e25

\* The number a digit string denotes, digit by digit.
Pow10(n) == 10 ^ n
RECURSIVE SumDigits(_, _)
SumDigits(str, i) ==
  IF i > Len(str) THEN 0
  ELSE DigitVal[str[i]] * Pow10(Len(str) - i) + SumDigits(str, i + 1)

IsDigitString(str) == \A i \in 1..Len(str) : str[i] \in Digits
LeadingPart == SubSeq(s, 1, Len(s) - StakeCutoff)

\* C6: GetStakeFromString gives 0 for a string of at most 19 characters; for a
\* longer string it gives the number its leading len-19 digits denote, over
\* 100000, and 0 when that prefix does not parse; "123456789012345678901"
\* gives 12/100000.
C6_Normalization ==
  pc = "return" =>
    /\ stake \in Nat
    /\ Len(s) <= 19 => stake = 0
    /\ (Len(s) > 19 /\ IsDigitString(LeadingPart)) => stake = SumDigits(LeadingPart, 1)
    /\ (Len(s) > 19 /\ ~IsDigitString(LeadingPart)) => stake = 0
    /\ s = <<"1", "2">> \o Tail19 => stake = 12

C6_Witness == pc = "return" /\ s = <<"1", "2">> \o Tail19 /\ stake = 12

AccountListed ==
  \/ \E i \in 1..Len(r[1].CurrentValidators) : r[1].CurrentValidators[i].AccountId = accountId
  \/ \E i \in 1..Len(r[1].NextValidators) : r[1].NextValidators[i].AccountId = accountId
  \/ \E i \in 1..Len(r[1].CurrentProposals) : r[1].CurrentProposals[i].AccountId = accountId
  \/ \E i \in 1..Len(r[1].PrevEpochKickOut) : r[1].PrevEpochKickOut[i].AccountId = accountId

AccountDescs ==
  {currentValidatorStakeDesc, epochBlockProducedDesc, epochBlockExpectedDesc,
   epochChunksProducedDesc, epochChunksExpectedDesc, nextValidatorStakeDesc,
   currentProposalsDesc, prevEpochKickoutDesc}

C7_Case ==
  /\ pc = "done"
  /\ CallOk("status") /\ CallOk("validators") /\ CallOk("query")
  /\ ~AccountListed

\* C7: when the three calls succeed and the configured account is in none of
\* the four lists, nothing at all is sent for the account's identities.
C7_AbsentAccount ==
  C7_Case => \A d \in AccountDescs : Emitted(d) = {}

C7_Witness ==
  /\ C7_Case
  /\ Len(r[1].CurrentValidators) = MaxCurrent
  /\ Len(r[1].NextValidators) > 0
  /\ Len(r[1].CurrentProposals) > 0
  /\ Len(r[1].PrevEpochKickOut) > 0

\* C8: within one scrape no identity is sent both as a valid observation and
\* as an invalid marker, and an identity without labels is sent at most once.
C8_OneEmissionPerIdentity ==
  \A d \in Range(Describe) :
    /\ ~(ValidOf(d) # {} /\ InvalidOf(d) # {})
    /\ d \notin LabelledDescs => Cardinality(Emitted(d)) <= 1

CallOrder == <<"status", "validators", "query">>

C9_Sequential ==
  /\ Len(calls) <= 3
  /\ \A i \in 1..Len(calls) : calls[i].method = CallOrder[i]
  /\ \A i \in 1..Len(calls) : i < Len(calls) => calls[i].ok
  /\ (pc = "done") <=> (Len(calls) = 3 \/ (calls # <<>> /\ ~calls[Len(calls)].ok))
  /\ pc \in {"status", "validators", "query"} => pc = CallOrder[Len(calls) + 1]

\* C9: a scrape makes its calls in the order status, validators, query, each
\* at most once, a call only after the calls before it succeeded and none
\* after a failed one, and every scrape that starts comes to its end.
C9_SequentialAndTerminates ==
  /\ []C9_Sequential
  /\ (pc = "status") ~> (pc = "done")

C9_Witness == pc = "done" /\ Len(calls) = 3 /\ calls[3].ok

C10_Case == CallOk("validators") /\ r # NoResponse /\ RawStakes = <<>>

\* C10 as stated: after a validators response with an empty current-validator
\* list no near_seat_price observation is sent.
C10_NoSeatPriceOnEmpty ==
  C10_Case => Emitted(seatPriceDesc) = {}

\* C10 amended: after a validators response with an empty current-validator
\* list one valid near_seat_price observation is sent, with value 0.
C10_SeatPriceZeroOnEmpty ==
  C10_Case =>
    /\ Cardinality(Emitted(seatPriceDesc)) = 1
    /\ InvalidOf(seatPriceDesc) = {}
    /\ SeatPriceValues = {Float64(0)}

C10_Witness == C10_Case /\ pc = "query"

====
